---------------------------- MODULE Spec2Model ----------------------------
(***************************************************************************)
(* A model of wave_plus_exporter.py: discovery of Airthings Wave Plus      *)
(* devices (WavePlusDeviceDetector), the retried read of the sensor        *)
(* characteristic (WavePlusDevice.collect_metrics), the derivation of the  *)
(* seven gauges (WavePlusSensors.update_counters) and the poll loop        *)
(* (WavePlusExporter.start / update_metrics).                              *)
(*                                                                         *)
(* The exporter is one asyncio coroutine; pc is its position.  Every       *)
(* action runs from one suspension point (await) to the next.              *)
(***************************************************************************)
EXTENDS Integers, Sequences, FiniteSets, TLC

----------------------------------------------------------------------------
(* Bounds of the model *)

\* the exporter is configured with 0..MaxDevices devices
MaxDevices == 2
\* the radio window holds at most MaxAds advertisements (scan specification)
MaxAds == 2
\* max_tries ranges over 0..MaxTries and the default
MaxTries == 2
\* payloads of every length 0..MaxPayloadLen are read
MaxPayloadLen == 21
\* "was not detected" log lines are counted up to MaxLogs per device
MaxLogs == 2

----------------------------------------------------------------------------
(* Program constants *)

SERVICE_UUID == "b42e1c08-ade7-11e4-89d3-123b93f75cba"
MFDATA_SN_UUID == 820
DEFAULT_MAX_TRIES == 12

\* a service UUID and a vendor key of some other product
OTHER_UUID == "0000180a-0000-1000-8000-00805f9b34fb"
OTHER_KEY == MFDATA_SN_UUID + 1

\* Python's None, and a local name deleted by the end of `except ... as`
None == "None"
Unbound == "UNBOUND"

\* the "BBBBHHHHHHHH" format: the size in bytes of each of the 12 fields
FORMAT == <<1, 1, 1, 1, 2, 2, 2, 2, 2, 2, 2, 2>>

HUMID == "humidity_percent"
RADON_S == "radon_short_term_avg_becquerels"
RADON_L == "radon_long_term_avg_becquerels"
TEMP == "temperature_celsius"
PRESS == "pressure_pascal"
CO2 == "carbondioxide_ppm"
VOC == "voc_ppb"
Metrics == {HUMID, RADON_S, RADON_L, TEMP, PRESS, CO2, VOC}

VARIABLES
    devices,      \* WavePlusExporter.devices: the WavePlusDevice objects
    max_tries,    \* collect_metrics' max_tries
    radio,        \* the advertisements BleakScanner.discover returns
    sn_map,       \* WavePlusDeviceDetector.sn_map
    scanned,      \* WavePlusDeviceDetector.scanned
    registry,     \* the gauges: registry[name][metric]
    serving,      \* the prometheus service has been started
    pc,           \* position of the exporter's coroutine
    idx,          \* position of `for device in self.devices`
    retry,        \* collect_metrics' local retry
    raw_data,     \* result of the pending read: bytes, or the error raised
    raw_metrics,  \* collect_metrics' local raw_metrics
    exc,          \* collect_metrics' local exc
    last_exc,     \* the exception the last `except` of this call caught
    conn,         \* the BleakClient of the current attempt: closed or open
    leaked,       \* a cancelled connect or disconnect left a link half-open
    scans,        \* number of BleakScanner.discover calls made
    detects,      \* detects[i]: number of detector.detect calls on device i
    attempts,     \* connection attempts made by the current collect_metrics
    fails,        \* attempts of the current collect_metrics that raised
    sleeps,       \* retry delays slept by the current collect_metrics
    last_good,    \* last_good[name]: the last version-1 reading read for name
    visited,      \* the devices collect_metrics was called on in this pass
    logs,         \* logs[i]: "was not detected" errors logged for device i
    scraped       \* the gauges of one label as the last scrape saw them

vars == <<devices, max_tries, radio, sn_map, scanned, registry, serving, pc,
          idx, retry, raw_data, raw_metrics, exc, last_exc, conn, leaked, scans, detects,
          attempts, fails, sleeps, last_good, visited, logs, scraped>>


----------------------------------------------------------------------------
(* WavePlusDeviceDetector: pure parts *)

\* the None that parse_serial_number returns: no byte string parses to it
NoSerial == -1

\* data[0] | data[1] << 8 | data[2] << 16 | data[3] << 24 on bytes (0..255):
\* the shifted bytes share no bit, so the bitwise or is their sum.
\* data[i] past the end raises IndexError, which returns None (NoSerial).
parse_serial_number(data) ==
    IF Len(data) < 4
    THEN NoSerial
    ELSE data[1] + data[2] * 256 + data[3] * 65536 + data[4] * 16777216

\* dict assignment m[k] = v
DictSet(m, k, v) == [x \in DOMAIN m \cup {k} |-> IF x = k THEN v ELSE m[x]]

\* Python truthiness of an Optional[int]: None and 0 are false
Truthy(x) == x # NoSerial /\ x # 0

\* the body of scan's `for device in devices` for one advertisement
ScanOne(m, ad) ==
    IF SERVICE_UUID \notin ad.uuids
    THEN m
    ELSE IF MFDATA_SN_UUID \notin DOMAIN ad.manufacturer_data
         THEN m      \* KeyError: continue
         ELSE LET serial_number ==
                      parse_serial_number(ad.manufacturer_data[MFDATA_SN_UUID])
              IN  IF Truthy(serial_number)
                  THEN DictSet(m, serial_number, ad.address)
                  ELSE m

RECURSIVE ScanLoop(_, _)
ScanLoop(m, ads) ==
    IF ads = <<>> THEN m ELSE ScanLoop(ScanOne(m, Head(ads)), Tail(ads))

\* self.sn_map.get(device.serial_number)
get_address(m, device) ==
    IF device.serial_number \in DOMAIN m THEN m[device.serial_number] ELSE None

----------------------------------------------------------------------------
(* WavePlusDevice: pure parts *)

NewDevice(serial_number) ==
    [serial_number |-> serial_number, name |-> serial_number,
     address |-> None, detected |-> "None"]

\* detected is None, True or False
PyBool(b) == IF b THEN "True" ELSE "False"

set_address(device, address) ==
    [device EXCEPT !.address = address, !.detected = PyBool(address # None)]

RECURSIVE SumSeq(_)
SumSeq(s) == IF s = <<>> THEN 0 ELSE Head(s) + SumSeq(Tail(s))

\* struct.calcsize("BBBBHHHHHHHH"): every H falls on an even offset, so
\* native alignment adds no padding
CalcSize == SumSeq(FORMAT)

\* offset (0-based) of field i (1-based) of the format
Offset(i) == SumSeq(SubSeq(FORMAT, 1, i - 1))

\* one field: an unsigned byte, or an unsigned 16-bit value in the byte
\* order of the host (little-endian on the hosts the exporter runs on)
Field(data, i) ==
    IF FORMAT[i] = 1
    THEN data[Offset(i) + 1]
    ELSE data[Offset(i) + 1] + 256 * data[Offset(i) + 2]

\* a decoder that takes any buffer holding at least the format's bytes
CanUnpackAtLeast(data) == Len(data) >= CalcSize

\* struct.unpack raises struct.error unless len(data) = calcsize
CanUnpack(data) == Len(data) = CalcSize

Unpack(data) == [i \in 1..Len(FORMAT) |-> Field(data, i)]

----------------------------------------------------------------------------
(* WavePlusSensors *)

RECURSIVE GCD(_, _)
GCD(a, b) == IF b = 0 THEN a ELSE GCD(b, a % b)

\* the float n / d, kept exact as a reduced fraction
Div(n, d) == LET g == GCD(n, d) IN <<n \div g, d \div g>>

\* an int stored in a gauge
Whole(n) == <<n, 1>>

\* no sample set yet for this label
Unset == <<>>

\* the clamp with its upper bound excluded
_radonExclusive(radon) == IF 0 <= radon /\ radon < 16383 THEN radon ELSE -1

_radon(radon) == IF 0 <= radon /\ radon <= 16383 THEN radon ELSE -1

\* Gauge.set({"name": name}, value)
GaugeSet(reg, metric, name, value) == [reg EXCEPT ![name][metric] = value]

\* update_counters without the version check
update_countersUnchecked(reg, name, raw) ==
    LET r1 == GaugeSet(reg, HUMID, name, Div(raw[2], 2))
        r2 == GaugeSet(r1, RADON_S, name, Whole(_radon(raw[5])))
        r3 == GaugeSet(r2, RADON_L, name, Whole(_radon(raw[6])))
        r4 == GaugeSet(r3, TEMP, name, Div(raw[7], 100))
        r5 == GaugeSet(r4, PRESS, name, Div(raw[8], 50))
        r6 == GaugeSet(r5, CO2, name, Div(raw[9], 1))
    IN  GaugeSet(r6, VOC, name, Div(raw[10], 1))

\* update_counters checking the version after its first write
update_countersLateCheck(reg, name, raw) ==
    LET r1 == GaugeSet(reg, HUMID, name, Div(raw[2], 2))
    IN  IF raw[1] # 1 THEN r1 ELSE update_countersUnchecked(reg, name, raw)

\* update_counters scaling the temperature by 10 instead of 100
update_countersWrongScale(reg, name, raw) ==
    IF raw[1] # 1
    THEN reg
    ELSE GaugeSet(update_countersUnchecked(reg, name, raw), TEMP, name,
                  Div(raw[7], 10))

\* raw_metrics[k] of the code is raw[k + 1] here
update_counters(reg, name, raw) ==
    IF raw[1] # 1
    THEN reg
    ELSE LET r1 == GaugeSet(reg, HUMID, name, Div(raw[2], 2))
             r2 == GaugeSet(r1, RADON_S, name, Whole(_radon(raw[5])))
             r3 == GaugeSet(r2, RADON_L, name, Whole(_radon(raw[6])))
             r4 == GaugeSet(r3, TEMP, name, Div(raw[7], 100))
             r5 == GaugeSet(r4, PRESS, name, Div(raw[8], 50))
             r6 == GaugeSet(r5, CO2, name, Div(raw[9], 1))
         IN  GaugeSet(r6, VOC, name, Div(raw[10], 1))


----------------------------------------------------------------------------
(* Inputs *)

\* what a device with this serial number advertises and where
SerialBytes(s) ==
    <<s % 256, (s \div 256) % 256, (s \div 65536) % 256, (s \div 16777216) % 256>>

Address(s) == ToString(s)

Advert(s) ==
    [address |-> Address(s), uuids |-> {SERVICE_UUID},
     manufacturer_data |-> [k \in {MFDATA_SN_UUID} |-> SerialBytes(s)]]

\* the radio window when exactly the devices of S are in range
RadioOf(S) ==
    LET present == SelectSeq([i \in 1..MaxDevices |-> i], LAMBDA i : i \in S)
    IN  [j \in 1..Len(present) |-> Advert(present[j])]

PollRadios == {RadioOf(S) : S \in SUBSET (1..MaxDevices)}

\* vendor data seen in advertisements: too short, serial 0, serial 1,
\* serial 2, serial 1 with a trailing byte, serial 2^31 - 1 (the largest
\* TLC's integers hold; Python's are unbounded)
VendorData ==
    {<<1, 0, 0>>, <<0, 0, 0, 0>>, <<1, 0, 0, 0>>, <<2, 0, 0, 0>>,
     <<1, 0, 0, 0, 9>>, <<255, 255, 255, 127>>}

Ads ==
    [address : {"A", "B"}, uuids : {{SERVICE_UUID}, {OTHER_UUID}},
     manufacturer_data :
         {[k \in {OTHER_KEY} |-> <<1, 0, 0, 0>>]}
         \cup {[k \in {MFDATA_SN_UUID} |-> d] : d \in VendorData}]

ScanRadios == UNION {[1..n -> Ads] : n \in 0..MaxAds}

\* version 1, humidity 100, radon 500 / 600, temperature 2500,
\* pressure 50000, co2 800, voc 250
Sample1 ==
    <<1, 100, 3, 4, 244, 1, 88, 2, 196, 9, 80, 195, 32, 3, 250, 0, 0, 0, 0, 0>>

\* version 1, humidity 61, radon 16384 / 65535, temperature 1, pressure 25,
\* co2 1, voc 2
Sample2 ==
    <<1, 61, 0, 0, 0, 64, 255, 255, 1, 0, 25, 0, 1, 0, 2, 0, 5, 0, 6, 0>>

\* Sample1 truncated or zero-padded to n bytes
Sized(n) == [i \in 1..n |-> IF i <= Len(Sample1) THEN Sample1[i] ELSE 0]

\* what client.read_gatt_char may return
Payloads ==
    {Sized(n) : n \in 0..MaxPayloadLen}
    \cup {Sample2, [Sample1 EXCEPT ![1] = 2], [Sample1 EXCEPT ![1] = 0]}

MaxTriesChoices == (0..MaxTries) \cup {DEFAULT_MAX_TRIES}

----------------------------------------------------------------------------
(* State *)

\* the result of the pending read: the bytes read or the exception raised
Bytes(data) == [error |-> None, data |-> data]
Raised(error) == [error |-> error, data |-> <<>>]
NoData == Raised(None)

\* raw_metrics = None
NoMetrics == <<>>

NoLocals ==
    /\ retry' = 0
    /\ raw_data' = NoData
    /\ raw_metrics' = NoMetrics
    /\ exc' = None
    /\ last_exc' = None
    /\ attempts' = 0
    /\ fails' = 0
    /\ sleeps' = 0

InitCommon ==
    /\ devices \in {[i \in 1..n |-> NewDevice(i)] : n \in 0..MaxDevices}
    /\ sn_map = <<>>
    /\ scanned = FALSE
    /\ registry = [name \in 1..MaxDevices |-> [m \in Metrics |-> Unset]]
    /\ serving = FALSE
    /\ pc = "detect"
    /\ idx = 1
    /\ retry = 0
    /\ raw_data = NoData
    /\ raw_metrics = NoMetrics
    /\ exc = None
    /\ last_exc = None
    /\ conn = "closed"
    /\ leaked = FALSE
    /\ scans = 0
    /\ detects = [i \in 1..Len(devices) |-> 0]
    /\ attempts = 0
    /\ fails = 0
    /\ sleeps = 0
    /\ last_good = [name \in 1..MaxDevices |-> NoMetrics]
    /\ visited = <<>>
    /\ logs = [i \in 1..Len(devices) |-> 0]
    /\ scraped = [m \in Metrics |-> Unset]

Init ==
    /\ InitCommon
    /\ max_tries \in MaxTriesChoices
    /\ radio \in PollRadios

InitScan ==
    /\ InitCommon
    /\ max_tries = DEFAULT_MAX_TRIES
    /\ radio \in ScanRadios


\* readings update_counters is called with: the version tag, the fields the
\* gauges are derived from, the radon fields at and around the clamp's
\* bounds (and below 0, which no unpacked field is), and the unused fields
Readings ==
    {<<v, h, u[1], u[2], rs, rl, t[1], t[2], 800, 250, u[3], u[4]>> :
        v \in {1, 2}, h \in {100, 61},
        u \in {<<3, 4, 0, 0>>, <<0, 0, 5, 6>>},
        rs \in {-1, 0, 500, 16383, 16384, 65535},
        rl \in {-1, 600, 16383, 16384},
        t \in {<<2500, 50000>>, <<1, 25>>}}

\* update_metrics holds a reading of the one device, detected at address 1
InitDerive ==
    /\ max_tries = DEFAULT_MAX_TRIES
    /\ radio = RadioOf({1})
    /\ devices = <<set_address(NewDevice(1), Address(1))>>
    /\ sn_map = ScanLoop(<<>>, radio)
    /\ scanned = TRUE
    /\ registry = [name \in 1..MaxDevices |-> [m \in Metrics |-> Unset]]
    /\ serving = TRUE
    /\ pc = "update"
    /\ idx = 1
    /\ retry = 0
    /\ raw_data = NoData
    /\ raw_metrics \in Readings
    /\ exc = None
    /\ last_exc = None
    /\ conn = "closed"
    /\ leaked = FALSE
    /\ scans = 1
    /\ detects = <<1>>
    /\ attempts = 1
    /\ fails = 0
    /\ sleeps = 0
    /\ last_good = [name \in 1..MaxDevices |-> NoMetrics]
    /\ visited = <<1>>
    /\ logs = <<0>>
    /\ scraped = [m \in Metrics |-> Unset]

----------------------------------------------------------------------------
(* WavePlusExporter.start: detection, then the service *)

envVars == <<max_tries, radio>>
detectorVars == <<sn_map, scanned, scans>>
localVars ==
    <<retry, raw_data, raw_metrics, exc, last_exc, attempts, fails, sleeps>>
linkVars == <<conn, leaked>>

\* logger.error("%s (sn=%s) was not detected, ...") for device i
LogError(l, i) == [l EXCEPT ![i] = IF @ < MaxLogs THEN @ + 1 ELSE @]

\* a read of the device called name has returned the reading raw: it is
\* the last good one if its version tag is 1
Completed(good, name, raw) ==
    IF raw[1] = 1 THEN [good EXCEPT ![name] = raw] ELSE good

\* the position update_metrics' for loop starts a pass at
LoopStart == IF Len(devices) > 0 THEN "collect" ELSE "cycle_sleep"

\* a scan that is remembered only when it found a device
DetectScanUncached ==
    /\ pc = "detect"
    /\ idx <= Len(devices)
    /\ ~scanned
    /\ sn_map' = ScanLoop(sn_map, radio)
    /\ scanned' = (sn_map' # <<>>)
    /\ scans' = scans + 1
    /\ detects' = IF scanned' THEN detects ELSE [detects EXCEPT ![idx] = @ + 1]
    /\ devices' = IF scanned' THEN devices
                  ELSE [devices EXCEPT ![idx] = set_address(@, None)]
    /\ idx' = IF scanned' THEN idx ELSE idx + 1
    /\ UNCHANGED <<envVars, registry, serving, pc, localVars, linkVars>>
    /\ UNCHANGED <<last_good, visited, logs, scraped>>

\* detector.detect(device), not yet scanned: await self.scan()
DetectScan ==
    /\ pc = "detect"
    /\ idx <= Len(devices)
    /\ ~scanned
    /\ sn_map' = ScanLoop(sn_map, radio)
    /\ scanned' = TRUE
    /\ scans' = scans + 1
    /\ UNCHANGED <<envVars, devices, registry, serving, pc, idx, localVars,
                   linkVars, detects>>
    /\ UNCHANGED <<last_good, visited, logs, scraped>>

\* detector.detect(device), scanned: device.set_address(self.get_address(device))
DetectLookup ==
    /\ pc = "detect"
    /\ idx <= Len(devices)
    /\ scanned
    /\ devices' = [devices EXCEPT
                       ![idx] = set_address(@, get_address(sn_map, @))]
    /\ detects' = [detects EXCEPT ![idx] = @ + 1]
    /\ idx' = idx + 1
    /\ UNCHANGED <<envVars, detectorVars, registry, serving, pc, localVars,
                   linkVars>>
    /\ UNCHANGED <<last_good, visited, logs, scraped>>

\* svc.start(...), then update_metrics() enters its first pass
ServiceStart ==
    /\ pc = "detect"
    /\ idx > Len(devices)
    /\ serving' = TRUE
    /\ idx' = 1
    /\ pc' = LoopStart
    /\ UNCHANGED <<envVars, detectorVars, devices, registry, localVars,
                   linkVars, detects>>
    /\ UNCHANGED <<last_good, visited, logs, scraped>>

----------------------------------------------------------------------------
(* WavePlusExporter.update_metrics and WavePlusDevice.collect_metrics *)

\* a loop that sleeps the cycle interval after every device
AdvanceSleepEach ==
    /\ idx' = idx + 1
    /\ pc' = "cycle_sleep"

\* the for loop of update_metrics moves on to the next device
Advance ==
    /\ idx' = idx + 1
    /\ pc' = IF idx < Len(devices) THEN "collect" ELSE "cycle_sleep"

\* collect_metrics without the return after "was not detected"
CollectNotDetectedNoReturn ==
    /\ pc = "collect"
    /\ devices[idx].detected # "True"
    /\ visited' = Append(visited, idx)
    /\ logs' = LogError(logs, idx)
    /\ NoLocals
    /\ pc' = IF max_tries > 0 THEN "connect" ELSE "collected"
    /\ UNCHANGED <<envVars, detectorVars, devices, registry, serving, idx,
                   linkVars, detects>>
    /\ UNCHANGED <<last_good, scraped>>

\* collect_metrics scanning again for a device that is not detected
CollectNotDetectedRescan ==
    /\ pc = "collect"
    /\ devices[idx].detected # "True"
    /\ visited' = Append(visited, idx)
    /\ logs' = LogError(logs, idx)
    /\ sn_map' = ScanLoop(sn_map, radio)
    /\ scans' = scans + 1
    /\ devices' = [devices EXCEPT
                       ![idx] = set_address(@, get_address(sn_map', @))]
    /\ Advance
    /\ UNCHANGED <<envVars, scanned, registry, serving, localVars, linkVars,
                   detects, last_good, scraped>>

\* collect_metrics logging "was not detected" the first time only
CollectNotDetectedLogOnce ==
    /\ pc = "collect"
    /\ devices[idx].detected # "True"
    /\ visited' = Append(visited, idx)
    /\ logs' = IF logs[idx] = 0 THEN LogError(logs, idx) ELSE logs
    /\ Advance
    /\ UNCHANGED <<envVars, detectorVars, devices, registry, serving,
                   localVars, linkVars, detects, last_good, scraped>>

\* collect_metrics on a device that is not detected: log, return None;
\* update_metrics' `if raw_metrics` is false
CollectNotDetected ==
    /\ pc = "collect"
    /\ devices[idx].detected # "True"
    /\ visited' = Append(visited, idx)
    /\ logs' = LogError(logs, idx)
    /\ Advance
    /\ UNCHANGED <<envVars, detectorVars, devices, registry, serving,
                   localVars, linkVars, detects>>
    /\ UNCHANGED <<last_good, scraped>>

\* collect_metrics on a detected device, up to the first attempt
CollectBegin ==
    /\ pc = "collect"
    /\ devices[idx].detected = "True"
    /\ visited' = Append(visited, idx)
    /\ NoLocals
    /\ pc' = IF max_tries > 0 THEN "connect" ELSE "collected"
    /\ UNCHANGED <<envVars, detectorVars, devices, registry, serving, idx,
                   linkVars, detects>>
    /\ UNCHANGED <<last_good, logs, scraped>>

\* the except clause is entered with e bound to exc
Except(e) ==
    /\ exc' = e
    /\ last_exc' = e
    /\ fails' = fails + 1
    /\ pc' = "retry_sleep"

\* BleakClient(self.address).__aenter__ connects
ConnectOk ==
    /\ pc = "connect"
    /\ attempts' = attempts + 1
    /\ conn' = "open"
    /\ pc' = "read"
    /\ UNCHANGED <<envVars, detectorVars, devices, registry, serving, idx,
                   retry, raw_data, raw_metrics, exc, last_exc, fails, sleeps,
                   leaked, detects>>
    /\ UNCHANGED <<last_good, visited, logs, scraped>>

\* the connection fails
ConnectFail ==
    /\ pc = "connect"
    /\ attempts' = attempts + 1
    /\ Except("ConnectionError")
    /\ UNCHANGED <<envVars, detectorVars, devices, registry, serving, idx,
                   retry, raw_data, raw_metrics, sleeps, linkVars, detects>>
    /\ UNCHANGED <<last_good, visited, logs, scraped>>

\* wait_for cancels the connect after 15 s: __aexit__ is not run, since
\* __aenter__ never returned; what the cancelled connect leaves behind is
\* the radio stack's business
ConnectTimeout ==
    /\ pc = "connect"
    /\ attempts' = attempts + 1
    /\ leaked' \in {leaked, TRUE}
    /\ Except("TimeoutError")
    /\ UNCHANGED <<envVars, detectorVars, devices, registry, serving, idx,
                   retry, raw_data, raw_metrics, sleeps, conn, detects>>
    /\ UNCHANGED <<last_good, visited, logs, scraped>>

\* client.read_gatt_char(CHAR_UUID) returns; __aexit__ starts to disconnect
ReadOk ==
    /\ pc = "read"
    /\ \E p \in Payloads : raw_data' = Bytes(p)
    /\ pc' = "disconnect"
    /\ UNCHANGED <<envVars, detectorVars, devices, registry, serving, idx,
                   retry, raw_metrics, exc, last_exc, attempts, fails, sleeps,
                   linkVars, detects>>
    /\ UNCHANGED <<last_good, visited, logs, scraped>>

\* the read raises, or wait_for cancels it: __aexit__ starts to disconnect
ReadFail ==
    /\ pc = "read"
    /\ \E e \in {"TransportError", "TimeoutError"} : raw_data' = Raised(e)
    /\ pc' = "disconnect"
    /\ UNCHANGED <<envVars, detectorVars, devices, registry, serving, idx,
                   retry, raw_metrics, exc, last_exc, attempts, fails, sleeps,
                   linkVars, detects>>
    /\ UNCHANGED <<last_good, visited, logs, scraped>>

\* the retry loop without its break: a successful attempt is followed by
\* the next turn of the loop
DisconnectNoBreak ==
    /\ pc = "disconnect"
    /\ conn' = "closed"
    /\ IF raw_data.error # None
       THEN Except(raw_data.error)
            /\ UNCHANGED <<raw_metrics, retry, last_good>>
       ELSE IF CanUnpack(raw_data.data)
            THEN /\ raw_metrics' = Unpack(raw_data.data)
                 /\ last_good' = Completed(last_good, devices[idx].name,
                                           Unpack(raw_data.data))
                 /\ IF retry + 1 < max_tries
                    THEN retry' = retry + 1 /\ pc' = "connect"
                    ELSE retry' = retry /\ pc' = "collected"
                 /\ UNCHANGED <<exc, last_exc, fails>>
            ELSE Except("struct.error")
                 /\ UNCHANGED <<raw_metrics, retry, last_good>>
    /\ UNCHANGED <<envVars, detectorVars, devices, registry, serving, idx,
                   raw_data, attempts, sleeps, leaked, detects>>
    /\ UNCHANGED <<visited, logs, scraped>>

\* a retry loop that catches the transport's errors only: struct.error
\* leaves collect_metrics
DisconnectUncaught ==
    /\ pc = "disconnect"
    /\ conn' = "closed"
    /\ IF raw_data.error # None
       THEN Except(raw_data.error) /\ UNCHANGED <<raw_metrics, last_good>>
       ELSE IF CanUnpack(raw_data.data)
            THEN /\ raw_metrics' = Unpack(raw_data.data)
                 /\ last_good' = Completed(last_good, devices[idx].name,
                                           Unpack(raw_data.data))
                 /\ pc' = "collected"
                 /\ UNCHANGED <<exc, last_exc, fails>>
            ELSE /\ pc' = "crashed"
                 /\ UNCHANGED <<raw_metrics, last_good, exc, last_exc, fails>>
    /\ UNCHANGED <<envVars, detectorVars, devices, registry, serving, idx,
                   retry, raw_data, attempts, sleeps, leaked, detects>>
    /\ UNCHANGED <<visited, logs, scraped>>

\* __aexit__ has disconnected: the pending exception is raised, or the
\* bytes read are unpacked (struct.error unless they fit the format)
Disconnect ==
    /\ pc = "disconnect"
    /\ conn' = "closed"
    /\ IF raw_data.error # None
       THEN Except(raw_data.error) /\ UNCHANGED <<raw_metrics, last_good>>
       ELSE IF CanUnpack(raw_data.data)
            THEN /\ raw_metrics' = Unpack(raw_data.data)
                 /\ last_good' = Completed(last_good, devices[idx].name,
                                           Unpack(raw_data.data))
                 /\ pc' = "collected"
                 /\ UNCHANGED <<exc, last_exc, fails>>
            ELSE Except("struct.error") /\ UNCHANGED <<raw_metrics, last_good>>
    /\ UNCHANGED <<envVars, detectorVars, devices, registry, serving, idx,
                   retry, raw_data, attempts, sleeps, leaked, detects>>
    /\ UNCHANGED <<visited, logs, scraped>>

\* wait_for cancels the attempt while __aexit__ disconnects
DisconnectTimeout ==
    /\ pc = "disconnect"
    /\ raw_data.error # "TimeoutError"
    /\ conn' = "closed"
    /\ leaked' \in {leaked, TRUE}
    /\ raw_data' = Raised("TimeoutError")
    /\ Except("TimeoutError")
    /\ UNCHANGED <<envVars, detectorVars, devices, registry, serving, idx,
                   retry, raw_metrics, attempts, sleeps, detects>>
    /\ UNCHANGED <<last_good, visited, logs, scraped>>

\* the name bound by `except Exception as exc` is deleted when the clause
\* ends
ExceptEnd(e) == Unbound

\* a retry loop that does not sleep after the last attempt of the budget
RetrySleepNotLast ==
    /\ pc = "retry_sleep"
    /\ sleeps' = IF retry + 1 < max_tries THEN sleeps + 1 ELSE sleeps
    /\ exc' = ExceptEnd(exc)
    /\ raw_data' = NoData
    /\ IF retry + 1 < max_tries
       THEN retry' = retry + 1 /\ pc' = "connect"
       ELSE retry' = retry /\ pc' = "collected"
    /\ UNCHANGED <<envVars, detectorVars, devices, registry, serving, idx,
                   raw_metrics, last_exc, attempts, fails, linkVars, detects>>
    /\ UNCHANGED <<last_good, visited, logs, scraped>>

\* await asyncio.sleep(sleep_between_retries), the end of the except
\* clause, and the next turn of `for retry in range(max_tries)`; the result
\* of the failed attempt is read no more
RetrySleep ==
    /\ pc = "retry_sleep"
    /\ sleeps' = sleeps + 1
    /\ exc' = ExceptEnd(exc)
    /\ raw_data' = NoData
    /\ IF retry + 1 < max_tries
       THEN retry' = retry + 1 /\ pc' = "connect"
       ELSE retry' = retry /\ pc' = "collected"
    /\ UNCHANGED <<envVars, detectorVars, devices, registry, serving, idx,
                   raw_metrics, last_exc, attempts, fails, linkVars, detects>>
    /\ UNCHANGED <<last_good, visited, logs, scraped>>

\* after the loop, raw_metrics set: log, return raw_metrics
CollectReturnMetrics ==
    /\ pc = "collected"
    /\ raw_metrics # NoMetrics
    /\ pc' = "update"
    /\ UNCHANGED <<envVars, detectorVars, devices, registry, serving, idx,
                   localVars, linkVars, detects>>
    /\ UNCHANGED <<last_good, visited, logs, scraped>>

\* after the loop, raw_metrics None: logger.error(..., exc), return None
CollectReturnNone ==
    /\ pc = "collected"
    /\ raw_metrics = NoMetrics
    /\ exc # Unbound
    /\ Advance
    /\ NoLocals
    /\ UNCHANGED <<envVars, detectorVars, devices, registry, serving,
                   linkVars, detects>>
    /\ UNCHANGED <<last_good, visited, logs, scraped>>

\* after the loop, raw_metrics None and exc deleted: evaluating exc raises
\* UnboundLocalError, which leaves collect_metrics, update_metrics and start
CollectRaise ==
    /\ pc = "collected"
    /\ raw_metrics = NoMetrics
    /\ exc = Unbound
    /\ pc' = "crashed"
    /\ UNCHANGED <<envVars, detectorVars, devices, registry, serving, idx,
                   localVars, linkVars, detects>>
    /\ UNCHANGED <<last_good, visited, logs, scraped>>

\* update_metrics storing every reading under the first device's name
UpdateCountersFirstName ==
    /\ pc = "update"
    /\ registry' = update_counters(registry, devices[1].name, raw_metrics)
    /\ Advance
    /\ NoLocals
    /\ UNCHANGED <<envVars, detectorVars, devices, serving, linkVars, detects>>
    /\ UNCHANGED <<last_good, visited, logs, scraped>>

\* self.sensors.update_counters(device.name, raw_metrics)
UpdateCounters ==
    /\ pc = "update"
    /\ registry' = update_counters(registry, devices[idx].name, raw_metrics)
    /\ Advance
    /\ NoLocals
    /\ UNCHANGED <<envVars, detectorVars, devices, serving, linkVars, detects>>
    /\ UNCHANGED <<last_good, visited, logs, scraped>>

\* await asyncio.sleep(self.update_metrics_frequency), then the next pass
CycleSleep ==
    /\ pc = "cycle_sleep"
    /\ idx' = 1
    /\ visited' = <<>>
    /\ pc' = LoopStart
    /\ UNCHANGED <<envVars, detectorVars, devices, registry, serving,
                   localVars, linkVars, detects>>
    /\ UNCHANGED <<last_good, logs, scraped>>

\* where the exporter's coroutine is suspended in an await of the poll
\* loop, so that the event loop can run the service's request handler
SuspensionPcs == {"connect", "read", "disconnect", "retry_sleep", "cycle_sleep"}

\* the service renders the registry for a GET /metrics: the seven gauges of
\* one label as they are while update_metrics is suspended
Scrape ==
    /\ serving
    /\ pc \in SuspensionPcs
    /\ \E name \in DOMAIN registry : scraped' = registry[name]
    /\ UNCHANGED <<envVars, detectorVars, devices, registry, serving, pc, idx,
                   localVars, linkVars, detects, last_good, visited, logs>>

----------------------------------------------------------------------------
(* Specifications *)

Next ==
    \/ DetectScan
    \/ DetectLookup
    \/ ServiceStart
    \/ CollectNotDetected
    \/ CollectBegin
    \/ ConnectOk
    \/ ConnectFail
    \/ ConnectTimeout
    \/ ReadOk
    \/ ReadFail
    \/ Disconnect
    \/ DisconnectTimeout
    \/ RetrySleep
    \/ CollectReturnMetrics
    \/ CollectReturnNone
    \/ CollectRaise
    \/ UpdateCounters
    \/ CycleSleep

\* the exporter from construction on
Spec == Init /\ [][Next]_vars

\* detection alone, over every radio window
NextScan == DetectScan \/ DetectLookup

SpecScan == InitScan /\ [][NextScan]_vars


\* the exporter with a client that scrapes the service, for the retry
\* budgets 0..MaxTries
InitServe ==
    /\ InitCommon
    /\ max_tries \in 0..MaxTries
    /\ radio \in PollRadios

NextServe == Next \/ Scrape

SpecServe == InitServe /\ [][NextServe]_vars

\* update_counters alone, over the readings
NextDerive == UpdateCounters

SpecDerive == InitDerive /\ [][NextDerive]_vars

----------------------------------------------------------------------------
(* Properties *)

\* the device update_metrics is at
Device == devices[idx]

\* collect_metrics is past its loop without a reading
Exhausted == pc \in {"collected", "crashed"} /\ raw_metrics = NoMetrics

\* collect_metrics is past its loop with a reading
Collected == pc \in {"collected", "update"} /\ raw_metrics # NoMetrics

\* positions of update_metrics
PollPcs ==
    {"collect", "connect", "read", "disconnect", "retry_sleep", "collected",
     "update", "cycle_sleep", "crashed"}

\* positions inside one connect+read attempt, and its retry delay
AttemptPcs == {"connect", "read", "disconnect", "retry_sleep"}

\* C1: the poll loop survives every per-device failure: whatever the
\* transport does, no error escapes update_metrics (run, as the exporter
\* runs it, with the default retry budget).
C1_PollLoopSurvives == max_tries = DEFAULT_MAX_TRIES => pc # "crashed"

\* C2: when every attempt has failed (or max_tries = 0), collect_metrics
\* completes normally, and the failure it reports carries the error of the
\* last failed attempt (None when there was no attempt).
C2_ExhaustionReportsLastError ==
    Exhausted =>
        /\ pc = "collected"
        /\ exc = IF fails > 0 THEN last_exc ELSE None

\* C3: against a transport that always fails, collect_metrics makes exactly
\* max_tries attempts, never more, with a retry delay between consecutive
\* attempts, and then reports Failure.
C3_ExactlyMaxTriesThenFailure ==
    /\ attempts <= max_tries
    /\ Exhausted =>
           /\ attempts = max_tries
           /\ fails = max_tries
           /\ sleeps >= attempts - 1
           /\ pc # "crashed"

\* the part of C3 that is about the number of attempts and delays
AttemptsWhenExhausted ==
    /\ attempts <= max_tries
    /\ Exhausted =>
           attempts = max_tries /\ fails = max_tries /\ sleeps >= attempts - 1

\* C4: when the first k-1 attempts fail and the k-th succeeds, exactly k
\* attempts have been made (k <= max_tries), the result is the 12 fields of
\* the bytes the k-th attempt read, and the connection is closed; the call
\* returns with these counts.
C4_SuccessAtAttemptK ==
    Collected =>
        /\ attempts = fails + 1
        /\ attempts <= max_tries
        /\ retry = fails
        /\ raw_data.error = None
        /\ Len(raw_data.data) >= 20
        /\ Len(raw_metrics) = 12
        /\ \A i \in 1..4 : raw_metrics[i] = raw_data.data[i]
        /\ \A j \in 0..7 :
               raw_metrics[5 + j] =
                   raw_data.data[5 + 2 * j] + 256 * raw_data.data[6 + 2 * j]
        /\ conn = "closed"

\* two failures, then success at the third attempt
C4_Witness == pc = "update" /\ fails = 2 /\ attempts = 3

\* C5: the gauges change only when update_counters is given a reading with
\* version tag 1, and then only those of the device read: an iteration that
\* fails at any stage (not detected, budget exhausted, bad length, bad
\* version) leaves every stored value as it was.
C5_FailureLeavesStore ==
    [][registry' # registry =>
           /\ pc = "update"
           /\ raw_metrics[1] = 1
           /\ \A n \in DOMAIN registry :
                  n # Device.name => registry'[n] = registry[n]]_vars

\* a device with stored values has exhausted its budget in a later cycle
C5_Witness ==
    /\ pc = "collected"
    /\ raw_metrics = NoMetrics
    /\ fails > 0
    /\ registry[Device.name][HUMID] # Unset

\* the gauge value v is the number n / d
IsValue(v, n, d) == v # Unset /\ v[1] * d = n * v[2]

\* the gauge value v is the radon value x, or the sentinel -1
IsRadon(v, x) == v # Unset /\ v[2] = 1 /\ (v[1] = x \/ v[1] = -1)

\* C6: update_counters on a reading whose version tag is not 1 writes no
\* gauge; on a reading whose version tag is 1 every one of the seven gauges
\* of the device holds the value of that reading afterwards.
C6_AllOrNothing ==
    [][pc = "update" =>
           IF raw_metrics[1] # 1
           THEN registry' = registry
           ELSE LET g == registry'[Device.name]
                IN  /\ IsValue(g[HUMID], raw_metrics[2], 2)
                    /\ IsRadon(g[RADON_S], raw_metrics[5])
                    /\ IsRadon(g[RADON_L], raw_metrics[6])
                    /\ IsValue(g[TEMP], raw_metrics[7], 100)
                    /\ IsValue(g[PRESS], raw_metrics[8], 50)
                    /\ IsValue(g[CO2], raw_metrics[9], 1)
                    /\ IsValue(g[VOC], raw_metrics[10], 1)]_vars

\* a reading with another version tag arrives for a device that has a
\* snapshot stored
C6_Witness ==
    /\ pc = "update"
    /\ raw_metrics[1] # 1
    /\ \A m \in Metrics : registry[Device.name][m] # Unset

\* C7: a device that was not detected is skipped: collect_metrics goes
\* straight on to the next device, without a connection, an attempt or a
\* retry delay, without raising and without touching the gauges; no attempt
\* is ever under way for such a device.
C7_UndetectedSkipped ==
    [][/\ pc' \in AttemptPcs => devices'[idx'].detected = "True"
       /\ (pc = "collect" /\ Device.detected # "True") =>
              /\ pc' = (IF idx < Len(devices) THEN "collect" ELSE "cycle_sleep")
              /\ idx' = idx + 1
              /\ conn' = conn /\ conn = "closed"
              /\ attempts' = attempts
              /\ sleeps' = sleeps
              /\ registry' = registry]_vars

\* the second device is polled after the first, undetected, was skipped
C7_Witness ==
    /\ pc = "connect"
    /\ idx = 2
    /\ devices[1].detected = "False"

\* the decoding of the bytes read succeeds exactly when they are n bytes
DecodesExactly(n) ==
    /\ (pc = "collected" /\ raw_metrics # NoMetrics)
           => Len(raw_data.data) = n
    /\ (pc = "retry_sleep" /\ exc = "struct.error")
           => Len(raw_data.data) # n

\* C8 as stated: a payload decodes into the 12 fields exactly when it is
\* 16 bytes long.
C8_DecodesIff16Bytes == DecodesExactly(16)

\* C8: a payload decodes into the 12 fields (4 unsigned 8-bit fields and 8
\* unsigned 16-bit fields) exactly when it is 20 bytes long; a payload of
\* any other length, 16 bytes included, is a decode failure.
C8_DecodesIff20Bytes == DecodesExactly(20)

\* a 16-byte payload has been read and failed to decode
C8_Witness ==
    /\ pc = "retry_sleep"
    /\ exc = "struct.error"
    /\ Len(raw_data.data) = 16

\* serial numbers looked up in sn_map
SerialsChecked == {0, 1, 2, 3, 256, 2147483647}

\* the advertisement carries the service UUID and, under the vendor key, at
\* least 4 bytes that read s as a little-endian unsigned 32-bit integer
Advertises(ad, s) ==
    /\ SERVICE_UUID \in ad.uuids
    /\ MFDATA_SN_UUID \in DOMAIN ad.manufacturer_data
    /\ LET d == ad.manufacturer_data[MFDATA_SN_UUID]
       IN  /\ Len(d) >= 4
           /\ d[1] + 256 * (d[2] + 256 * (d[3] + 256 * d[4])) = s

\* after the scan, s is in sn_map exactly when some advertisement
\* advertises s, and maps to the address of the last one that does
MapsSerial(s) ==
    LET matching == {i \in 1..Len(radio) : Advertises(radio[i], s)}
    IN  /\ s \in DOMAIN sn_map <=> matching # {}
        /\ s \in DOMAIN sn_map =>
               \E i \in matching :
                   /\ \A j \in matching : j <= i
                   /\ sn_map[s] = radio[i].address

\* C9: after scan, sn_map holds serial s -> address a exactly when an
\* advertisement with the service UUID and at least 4 bytes of vendor data
\* reading s exists, a being the address of the last such one, for every
\* serial number s, 0 included.
C9_ScanMapsEverySerial == scanned => \A s \in SerialsChecked : MapsSerial(s)

\* the same for every serial number but 0, and no entry for 0
ScanMapsNonZeroSerials ==
    scanned =>
        /\ \A s \in SerialsChecked \ {0} : MapsSerial(s)
        /\ 0 \notin DOMAIN sn_map

\* C10: the radio is scanned at most once; once scanned, a detect call
\* only looks the serial number up (no scan, sn_map as it is), whatever the
\* scan found; and when update_metrics runs, and so before any connection
\* attempt, detect has been called exactly once on every device.
C10_ScanOnceDetectOnce ==
    [][/\ scans' <= 1
       /\ scanned => (scans' = scans /\ sn_map' = sn_map /\ scanned')
       /\ pc' \in PollPcs =>
              \A i \in 1..Len(devices') :
                  detects'[i] = 1 /\ devices'[i].detected # "None"]_vars

\* two devices configured, none found by the one scan, and the poll loop
\* is running
C10_Witness ==
    /\ pc = "cycle_sleep"
    /\ Len(devices) = 2
    /\ scans = 1
    /\ sn_map = <<>>


\* C11: _radon(x) is x when 0 <= x <= 16383 and -1 otherwise (0 -> 0,
\* 16383 -> 16383, 16384 -> -1, -1 -> -1, 65535 -> -1): the radon gauges
\* update_counters writes hold that value of fields 4 and 5, and every
\* stored radon value is -1 or in 0..16383.
C11_RadonClamp ==
    [][(pc = "update" /\ raw_metrics[1] = 1) =>
           \A f \in {<<RADON_S, 5>>, <<RADON_L, 6>>} :
               LET x == raw_metrics[f[2]]
                   v == registry'[Device.name][f[1]]
               IN  /\ v # Unset
                   /\ v[2] = 1
                   /\ v[1] \in {-1} \cup 0..16383
                   /\ (0 <= x /\ x <= 16383) => v[1] = x
                   /\ (x < 0 \/ x > 16383) => v[1] = -1
                   /\ x = 0 => v[1] = 0
                   /\ x = 16383 => v[1] = 16383
                   /\ x = 16384 => v[1] = -1
                   /\ x = -1 => v[1] = -1]_vars

\* 16384 has been clamped to -1 and 16383 stored as it is
C11_Witness ==
    /\ registry[1][RADON_S] = <<-1, 1>>
    /\ registry[1][RADON_L] = <<16383, 1>>

\* the fields the gauges are derived from
UsedFields == {1, 2, 5, 6, 7, 8, 9, 10}

\* C12: for a reading with version tag 1 the stored values are
\* humidity = field1 / 2, radon = clamp(field4), clamp(field5),
\* temperature = field6 / 100, pressure = field7 / 50, co2 = field8,
\* voc = field9 (50, 500, 600, 25, 1000, 800, 250 for the reading
\* (1,100,_,_,500,600,2500,50000,800,250,_,_)), and a reading that differs
\* only in fields 2, 3, 10 and 11 stores the same values.
C12_DerivedValues ==
    [][(pc = "update" /\ raw_metrics[1] = 1) =>
           LET g == registry'[Device.name]
               r == raw_metrics
               clamp(x) == IF 0 <= x /\ x <= 16383 THEN x ELSE -1
           IN  /\ IsValue(g[HUMID], r[2], 2)
               /\ IsValue(g[RADON_S], clamp(r[5]), 1)
               /\ IsValue(g[RADON_L], clamp(r[6]), 1)
               /\ IsValue(g[TEMP], r[7], 100)
               /\ IsValue(g[PRESS], r[8], 50)
               /\ IsValue(g[CO2], r[9], 1)
               /\ IsValue(g[VOC], r[10], 1)
               /\ (/\ r[2] = 100 /\ r[5] = 500 /\ r[6] = 600 /\ r[7] = 2500
                   /\ r[8] = 50000 /\ r[9] = 800 /\ r[10] = 250)
                      => /\ IsValue(g[HUMID], 50, 1)
                         /\ IsValue(g[RADON_S], 500, 1)
                         /\ IsValue(g[RADON_L], 600, 1)
                         /\ IsValue(g[TEMP], 25, 1)
                         /\ IsValue(g[PRESS], 1000, 1)
                         /\ IsValue(g[CO2], 800, 1)
                         /\ IsValue(g[VOC], 250, 1)
               /\ \A q \in Readings :
                      (\A i \in UsedFields : q[i] = r[i])
                          => update_counters(registry, Device.name, q)
                                 = registry']_vars

\* the reading of the example has been stored
C12_Witness ==
    /\ registry[1][HUMID] = <<50, 1>>
    /\ registry[1][RADON_S] = <<500, 1>>
    /\ registry[1][RADON_L] = <<600, 1>>
    /\ registry[1][TEMP] = <<25, 1>>
    /\ registry[1][PRESS] = <<1000, 1>>
    /\ registry[1][CO2] = <<800, 1>>
    /\ registry[1][VOC] = <<250, 1>>


\* the seven gauges g hold the values of the reading r
SnapshotOf(g, r) ==
    LET clamp(x) == IF 0 <= x /\ x <= 16383 THEN x ELSE -1
    IN  /\ IsValue(g[HUMID], r[2], 2)
        /\ IsValue(g[RADON_S], clamp(r[5]), 1)
        /\ IsValue(g[RADON_L], clamp(r[6]), 1)
        /\ IsValue(g[TEMP], r[7], 100)
        /\ IsValue(g[PRESS], r[8], 50)
        /\ IsValue(g[CO2], r[9], 1)
        /\ IsValue(g[VOC], r[10], 1)

\* no gauge of g holds a sample
Empty(g) == \A m \in Metrics : g[m] = Unset

\* a version-1 reading has been read and update_counters, which follows
\* without an await, has not run yet
Storing ==
    /\ pc \in {"collected", "update"}
    /\ raw_metrics # NoMetrics
    /\ raw_metrics[1] = 1

\* C13: the values stored for a device are those of the last version-1
\* reading read from that device, and no values when there has been none:
\* failed, invalid and pending reads do not replace them. (Between the
\* return of the read and update_counters, which runs without an await in
\* between, the store still holds the reading before.)
C13_StoreIsLastGoodRead ==
    ~Storing =>
        \A name \in DOMAIN registry :
            IF last_good[name] = NoMetrics
            THEN Empty(registry[name])
            ELSE SnapshotOf(registry[name], last_good[name])

\* the second device holds the values of Sample2 while a later attempt on
\* it has failed
C13_Witness ==
    /\ pc = "retry_sleep"
    /\ idx = 2
    /\ last_good[2] = Unpack(Sample2)
    /\ registry[2][HUMID] = <<61, 2>>
    /\ ~Empty(registry[1])

C15_ConnectionReleased ==
    pc \in {"retry_sleep", "connect", "cycle_sleep"} =>
        conn = "closed" /\ ~leaked

\* the part of C15 about connections that were opened: __aexit__ has
\* closed them when the attempt ends
OpenedConnectionClosed ==
    pc \notin {"read", "disconnect"} => conn = "closed"

\* C16: once update_metrics runs, no device's address or detected flag
\* changes and nothing is scanned again, whatever the poll cycles bring.
C16_ResolutionFixed ==
    [][(pc \in PollPcs) =>
           (/\ devices' = devices
            /\ sn_map' = sn_map
            /\ scanned' = scanned
            /\ scans' = scans)]_vars

\* after two failed attempts on the second device: it keeps its address,
\* and the first device stays undetected
C16_Witness ==
    /\ pc = "retry_sleep"
    /\ idx = 2
    /\ fails = 2
    /\ devices[2].address = Address(2)
    /\ devices[1].detected = "False"
    /\ logs[1] = 2

\* C17 as stated: the "was not detected" error of a device is logged once
\* for the process lifetime.
C17_LoggedOnce == \A i \in DOMAIN logs : logs[i] <= 1

\* C17: the "was not detected" error is logged each time update_metrics
\* calls collect_metrics on a device that is not detected, that is once in
\* every pass that reaches the device (counted up to MaxLogs), and at no
\* other point.
C17_LoggedEveryVisit ==
    [][\A i \in DOMAIN logs :
           logs'[i] =
               (IF /\ pc = "collect"
                   /\ i = idx
                   /\ devices[i].detected = "False"
                   /\ logs[i] < MaxLogs
                THEN logs[i] + 1
                ELSE logs[i])]_vars

\* the error has been logged a second time
C17_Witness == \E i \in DOMAIN logs : logs[i] = 2

\* C18: what a scrape sees of a label while update_metrics is suspended is
\* never a partial snapshot: no value at all, or the seven values of one
\* version-1 reading.
C18_ScrapeSeesWholeSnapshot ==
    \/ Empty(scraped)
    \/ \E p \in Payloads :
           /\ Len(p) = CalcSize
           /\ p[1] = 1
           /\ SnapshotOf(scraped, Unpack(p))

\* a scrape saw the values of Sample2 while a read was under way
C18_Witness ==
    /\ pc = "read"
    /\ scraped[HUMID] = <<61, 2>>
    /\ scraped[VOC] = <<2, 1>>

\* C19: a read that returns bytes of the wrong length is a failed attempt
\* of the retry loop: struct.error is caught, nothing is returned or
\* stored, the attempt counts, and after the retry delay the next attempt
\* starts if the budget is not used up (else the loop ends).
C19_WrongLengthRetried ==
    [][(/\ (/\ pc = "disconnect"
            /\ raw_data.error = None
            /\ Len(raw_data.data) # 20
            /\ raw_data' = raw_data)
               => (/\ pc' = "retry_sleep"
                   /\ exc' = "struct.error"
                   /\ fails' = fails + 1
                   /\ attempts' = attempts
                   /\ raw_metrics' = NoMetrics
                   /\ registry' = registry)
        /\ pc = "retry_sleep"
               => (/\ sleeps' = sleeps + 1
                   /\ attempts <= max_tries
                   /\ registry' = registry
                   /\ pc' = (IF attempts < max_tries THEN "connect"
                                                     ELSE "collected")))]_vars

\* a second attempt starts after the first read 16 bytes
C19_Witness ==
    /\ pc = "connect"
    /\ last_exc = "struct.error"
    /\ attempts = 1
    /\ sleeps = 1

\* C20: every failed attempt, the last of the budget too, is followed by
\* a retry delay: outside the except clause the delays slept equal the
\* failed attempts, max_tries of them when the budget is exhausted and
\* k - 1 when attempt k succeeded.
C20_DelayAfterEveryFailure ==
    /\ pc = "retry_sleep" => fails = sleeps + 1
    /\ pc # "retry_sleep" => sleeps = fails
    /\ Exhausted => sleeps = max_tries
    /\ Collected => sleeps = attempts - 1

\* the whole default budget has failed, 12 delays slept
C20_Witness ==
    /\ pc = "collected"
    /\ raw_metrics = NoMetrics
    /\ fails = DEFAULT_MAX_TRIES
    /\ sleeps = DEFAULT_MAX_TRIES

=============================================================================
